---- MODULE Spec2Model ----
(***************************************************************************)
(* FpuStackSim (src/hotspot/cpu/x86/c1_FpuStackSim_x86.cpp): the C1        *)
(* compile-time simulation of the x87 FPU register stack, together with    *)
(* the caller-held snapshots produced by write_state and consumed by       *)
(* read_state.                                                             *)
(*                                                                         *)
(* HotSpot's assert(cond, msg) aborts the VM in builds that define ASSERT  *)
(* and expands to nothing in the others.  The build is part of the state   *)
(* (ASSERT), fixed at Init.  An assertion that fails ends the run with     *)
(* status "fatal".  With assertions stripped, an access to _regs outside   *)
(* [0, nof_fpu_regs) is undefined behaviour: the run ends with status      *)
(* "undefined", about which the model says nothing more (the variables     *)
(* keep their last defined values and no further call is modelled).        *)
(***************************************************************************)
EXTENDS Integers, Sequences, FiniteSets, TLC

\* FrameMap::nof_fpu_regs, the capacity N of the register stack (8 on x86),
\* reduced here
nof_fpu_regs == 3

\* virtual register numbers handed in by the caller are 1..MaxVreg
MaxVreg == 3

\* number of snapshots the caller keeps
MaxSnaps == 1

\* longest counted Push/Pop sequence of SpecPushPop
MaxOps == 6

MaxTokens == 2

EMPTY == -1

Vregs == 1..MaxVreg

\* tos offsets handed in by the caller; nof_fpu_regs is out of range for
\* every stack size
Offsets == 0..nof_fpu_regs

Slots == 0..(nof_fpu_regs - 1)

VARIABLES
  ASSERT,         \* TRUE in a build that defines ASSERT (assertions armed)
  TraceFPUStack,  \* the TraceFPUStack flag
  sim,            \* the FpuStackSim object: _regs, _stack_size, plus the
                  \* outcome of the call (status), the trace lines it
                  \* emitted (lines), whether the compilation has been
                  \* bailed out (bailout) and the TraceFPUStack flag as
                  \* its calls read it (trace)
  saved,          \* the snapshots the caller holds: the intArray returned
                  \* by write_state (arr) and, as history, _stack_size and
                  \* _regs as they were when it was captured (from)
  lastOp,         \* history: the most recent call, its operands and result
  pushes,         \* history: push calls issued (counted in SpecPushPop)
  pops,           \* history: pop calls issued (counted in SpecPushPop)
  decorators,     \* the LogDecorators object: its _decorators bitmask
  lastParse       \* history: the most recent parse call, its argument, the
                  \* value it returned and _decorators as it was before

vars == <<ASSERT, TraceFPUStack, sim, saved, lastOp, pushes, pops,
          decorators, lastParse>>

----------------------------------------------------------------------------
\* outcomes of a call

Fatal(s) == [s EXCEPT !.status = "fatal"]

Undefined(s) == [s EXCEPT !.status = "undefined"]

\* a failed assert(...): fatal where assertions are armed, nothing otherwise
AssertFailed(s) == IF ASSERT THEN Fatal(s) ELSE s

\* a call that yields a value: the state it leaves and the value
Ret(s, v) == [st |-> s, ret |-> v]

----------------------------------------------------------------------------
\* accessors

stack_size(s) == s.stack_size

tos_index(s) == s.stack_size - 1

InBounds(i) == i >= 0 /\ i < nof_fpu_regs

regs_at(s, i) ==
  IF InBounds(i) THEN Ret(s, s.regs[i])
  ELSE IF ASSERT THEN Ret(Fatal(s), EMPTY)
  ELSE Ret(Undefined(s), EMPTY)

set_regs_at(s, i, val) ==
  IF InBounds(i) THEN [s EXCEPT !.regs[i] = val]
  ELSE IF ASSERT THEN Fatal(s)
  ELSE Undefined(s)

dec_stack_size(s) ==
  LET s1 == [s EXCEPT !.stack_size = @ - 1]
  IN  IF s1.stack_size >= 0 THEN s1 ELSE AssertFailed(s1)

\* inc_stack_size that counts the pushed slot twice
inc_stack_size_twice(s) ==
  LET s1 == [s EXCEPT !.stack_size = @ + 2]
  IN  IF s1.stack_size <= nof_fpu_regs THEN s1 ELSE AssertFailed(s1)

inc_stack_size(s) ==
  LET s1 == [s EXCEPT !.stack_size = @ + 1]
  IN  IF s1.stack_size <= nof_fpu_regs THEN s1 ELSE AssertFailed(s1)

\* trace_fpustack_ul that pops the stack it prints
trace_fpustack_ul_consuming(s) ==
  IF s.trace
  THEN [s EXCEPT !.lines = @ + 1,
                 !.stack_size = IF @ > 0 THEN @ - 1 ELSE @]
  ELSE s

\* if (TraceFPUStack) { trace_fpustack_ul(...); }: one line, made of the
\* operation, its operands and the printed stack; s.trace is the flag as
\* the call reads it
trace_fpustack_ul(s) ==
  IF s.trace THEN [s EXCEPT !.lines = @ + 1] ELSE s

\* the constructor
FpuStackSim ==
  [regs |-> [i \in Slots |-> EMPTY], stack_size |-> 0,
   status |-> "ok", lines |-> 0, bailout |-> FALSE,
   trace |-> TraceFPUStack]

----------------------------------------------------------------------------
\* mutators

\* pop that leaves the popped slot as it was
pop_noclear(s) ==
  LET s1 == trace_fpustack_ul(s)
      r  == regs_at(s1, tos_index(s1))
  IN  IF r.st.status # "ok" THEN r.st ELSE dec_stack_size(s1)

\* pop that counts the slot off before it clears it
pop_dec_first(s) ==
  LET s1 == trace_fpustack_ul(s)
      s2 == dec_stack_size(s1)
  IN  IF s2.status # "ok" THEN s2 ELSE set_regs_at(s2, stack_size(s2), EMPTY)

pop(s) ==
  LET s1 == trace_fpustack_ul(s)
      s2 == set_regs_at(s1, tos_index(s1), EMPTY)
  IN  IF s2.status # "ok" THEN s2 ELSE dec_stack_size(s2)

\* pop(int rnr) that does not look at the top slot
pop_rnr_unchecked(s, rnr) ==
  LET s1 == trace_fpustack_ul(s)
      s3 == set_regs_at(s1, tos_index(s1), EMPTY)
  IN  IF s3.status # "ok" THEN s3 ELSE dec_stack_size(s3)

\* pop(int rnr); the asserted read of the top slot exists only under ASSERT
pop_rnr(s, rnr) ==
  LET s1 == trace_fpustack_ul(s)
      t  == regs_at(s1, tos_index(s1))
      s2 == IF ~ASSERT THEN s1
            ELSE IF t.st.status # "ok" THEN t.st
            ELSE IF t.ret = rnr THEN s1 ELSE Fatal(s1)
      s3 == IF s2.status # "ok" THEN s2
            ELSE set_regs_at(s2, tos_index(s2), EMPTY)
  IN  IF s3.status # "ok" THEN s3 ELSE dec_stack_size(s3)

\* push that drops the register when the stack is full
push_drop(s, rnr) ==
  LET s1 == trace_fpustack_ul(s)
      t  == regs_at(s1, stack_size(s1))
      s2 == IF ~ASSERT THEN s1
            ELSE IF t.st.status # "ok" THEN t.st
            ELSE IF t.ret = EMPTY THEN s1 ELSE Fatal(s1)
      s3 == IF s2.status # "ok" THEN s2
            ELSE set_regs_at(s2, stack_size(s2), rnr)
  IN  IF stack_size(s1) >= nof_fpu_regs THEN s1
      ELSE IF s3.status # "ok" THEN s3 ELSE inc_stack_size(s3)

push(s, rnr) ==
  LET s1 == trace_fpustack_ul(s)
      t  == regs_at(s1, stack_size(s1))
      s2 == IF ~ASSERT THEN s1
            ELSE IF t.st.status # "ok" THEN t.st
            ELSE IF t.ret = EMPTY THEN s1 ELSE Fatal(s1)
      s3 == IF s2.status # "ok" THEN s2
            ELSE set_regs_at(s2, stack_size(s2), rnr)
  IN  IF s3.status # "ok" THEN s3 ELSE inc_stack_size(s3)

\* swap that loses the value of the slot below
swap_overwrite(s, offset) ==
  LET s1 == trace_fpustack_ul(s)
      u  == regs_at(s1, tos_index(s1))
  IN  IF u.st.status # "ok" THEN u.st
      ELSE set_regs_at(u.st, tos_index(u.st) - offset, u.ret)

\* swap that exchanges with the slot one further down
swap_off_by_one(s, offset) ==
  LET s1 == trace_fpustack_ul(s)
      lo == IF offset > 0 /\ offset < tos_index(s1)
            THEN offset + 1 ELSE offset
      t  == regs_at(s1, tos_index(s1) - lo)
      u  == IF t.st.status # "ok" THEN t ELSE regs_at(t.st, tos_index(t.st))
      s2 == IF u.st.status # "ok" THEN u.st
            ELSE set_regs_at(u.st, tos_index(u.st) - lo, u.ret)
  IN  IF s2.status # "ok" THEN s2 ELSE set_regs_at(s2, tos_index(s2), t.ret)

swap(s, offset) ==
  LET s1 == trace_fpustack_ul(s)
      t  == regs_at(s1, tos_index(s1) - offset)
      u  == IF t.st.status # "ok" THEN t ELSE regs_at(t.st, tos_index(t.st))
      s2 == IF u.st.status # "ok" THEN u.st
            ELSE set_regs_at(u.st, tos_index(u.st) - offset, u.ret)
  IN  IF s2.status # "ok" THEN s2 ELSE set_regs_at(s2, tos_index(s2), t.ret)

set_slot(s, tos_offset, rnr) == set_regs_at(s, tos_index(s) - tos_offset, rnr)

\* rename that stops at the first slot it renames
RECURSIVE rename_loop_first(_, _, _, _, _)
rename_loop_first(s, i, old_rnr, new_rnr, found) ==
  IF i >= stack_size(s) \/ found
  THEN IF found THEN s ELSE AssertFailed(s)
  ELSE LET r  == regs_at(s, i)
           s1 == IF r.st.status # "ok" THEN r.st
                 ELSE IF r.ret # new_rnr THEN s ELSE AssertFailed(s)
       IN  IF s1.status # "ok" THEN s1
           ELSE IF r.ret = old_rnr
                THEN rename_loop_first(set_regs_at(s1, i, new_rnr), i + 1,
                                       old_rnr, new_rnr, TRUE)
                ELSE rename_loop_first(s1, i + 1, old_rnr, new_rnr, found)

\* rename that does not look for new_rnr on the stack
RECURSIVE rename_loop_unchecked(_, _, _, _, _)
rename_loop_unchecked(s, i, old_rnr, new_rnr, found) ==
  IF i >= stack_size(s)
  THEN IF found THEN s ELSE AssertFailed(s)
  ELSE LET r == regs_at(s, i)
       IN  IF r.st.status # "ok" THEN r.st
           ELSE IF r.ret = old_rnr
                THEN rename_loop_unchecked(set_regs_at(s, i, new_rnr), i + 1,
                                           old_rnr, new_rnr, TRUE)
                ELSE rename_loop_unchecked(s, i + 1, old_rnr, new_rnr, found)

\* the loop of rename from index i on; found is the local of that name
RECURSIVE rename_loop(_, _, _, _, _)
rename_loop(s, i, old_rnr, new_rnr, found) ==
  IF i >= stack_size(s)
  THEN IF found THEN s ELSE AssertFailed(s)
  ELSE LET r  == regs_at(s, i)
           s1 == IF r.st.status # "ok" THEN r.st
                 ELSE IF r.ret # new_rnr THEN s ELSE AssertFailed(s)
       IN  IF s1.status # "ok" THEN s1
           ELSE IF r.ret = old_rnr
                THEN rename_loop(set_regs_at(s1, i, new_rnr), i + 1,
                                 old_rnr, new_rnr, TRUE)
                ELSE rename_loop(s1, i + 1, old_rnr, new_rnr, found)

\* rename that prints its line after the old_rnr = new_rnr return
rename_trace_late(s, old_rnr, new_rnr) ==
  IF old_rnr = new_rnr THEN s
  ELSE rename_loop(trace_fpustack_ul(s), 0, old_rnr, new_rnr, FALSE)

\* rename that runs its loop also when old_rnr = new_rnr
rename_always_loop(s, old_rnr, new_rnr) ==
  LET s1 == trace_fpustack_ul(s)
  IN  rename_loop(s1, 0, old_rnr, new_rnr, FALSE)

rename(s, old_rnr, new_rnr) ==
  LET s1 == trace_fpustack_ul(s)
  IN  IF old_rnr = new_rnr THEN s1
      ELSE rename_loop(s1, 0, old_rnr, new_rnr, FALSE)

\* clear that leaves the bottom slot as it was
RECURSIVE clear_loop_above_bottom(_, _)
clear_loop_above_bottom(s, i) ==
  IF i < 1 \/ s.status # "ok" THEN s
  ELSE clear_loop_above_bottom(set_regs_at(s, i, EMPTY), i - 1)

\* the loop of clear from index i down
RECURSIVE clear_loop(_, _)
clear_loop(s, i) ==
  IF i < 0 \/ s.status # "ok" THEN s
  ELSE clear_loop(set_regs_at(s, i, EMPTY), i - 1)

\* clear that resets _stack_size and leaves the slots as they are
clear_size_only(s) ==
  LET s1 == trace_fpustack_ul(s)
  IN  [s1 EXCEPT !.stack_size = 0]

clear(s) ==
  LET s1 == trace_fpustack_ul(s)
      s2 == clear_loop(s1, tos_index(s1))
  IN  IF s2.status # "ok" THEN s2 ELSE [s2 EXCEPT !.stack_size = 0]

----------------------------------------------------------------------------
\* queries

\* offset_from_tos that returns the index of the slot it found
RECURSIVE offset_loop_index(_, _, _)
offset_loop_index(s, i, rnr) ==
  IF i < 0
  THEN IF ASSERT THEN Ret(Fatal(s), 0)
       ELSE Ret([s EXCEPT !.bailout = TRUE], 0)
  ELSE LET r == regs_at(s, i)
       IN  IF r.st.status # "ok" THEN Ret(r.st, 0)
           ELSE IF r.ret = rnr THEN Ret(s, i)
           ELSE offset_loop_index(s, i - 1, rnr)

\* offset_from_tos that keeps scanning and returns the deepest occurrence
RECURSIVE offset_loop_deepest(_, _, _)
offset_loop_deepest(s, i, rnr) ==
  IF i < 0
  THEN IF ASSERT THEN Ret(Fatal(s), 0)
       ELSE Ret([s EXCEPT !.bailout = TRUE], 0)
  ELSE LET r == regs_at(s, i)
           d == offset_loop_deepest(s, i - 1, rnr)
       IN  IF r.st.status # "ok" THEN Ret(r.st, 0)
           ELSE IF r.ret = rnr /\ (i = 0 \/ d.st # s)
                THEN Ret(s, tos_index(s) - i)
           ELSE d

\* offset_from_tos that answers 0 for a register it did not find
RECURSIVE offset_loop_silent(_, _, _)
offset_loop_silent(s, i, rnr) ==
  IF i < 0 THEN Ret(s, 0)
  ELSE LET r == regs_at(s, i)
       IN  IF r.st.status # "ok" THEN Ret(r.st, 0)
           ELSE IF r.ret = rnr THEN Ret(s, tos_index(s) - i)
           ELSE offset_loop_silent(s, i - 1, rnr)

\* the loop of offset_from_tos from index i down
RECURSIVE offset_loop(_, _, _)
offset_loop(s, i, rnr) ==
  IF i < 0
  THEN IF ASSERT THEN Ret(Fatal(s), 0)
       ELSE Ret([s EXCEPT !.bailout = TRUE], 0)
  ELSE LET r == regs_at(s, i)
       IN  IF r.st.status # "ok" THEN Ret(r.st, 0)
           ELSE IF r.ret = rnr THEN Ret(s, tos_index(s) - i)
           ELSE offset_loop(s, i - 1, rnr)

offset_from_tos(s, rnr) == offset_loop(s, tos_index(s), rnr)

get_slot(s, tos_offset) == regs_at(s, tos_index(s) - tos_offset)

\* the loop of contains from index i on
RECURSIVE contains_loop(_, _, _)
contains_loop(s, i, rnr) ==
  IF i >= stack_size(s) THEN Ret(s, FALSE)
  ELSE LET r == regs_at(s, i)
       IN  IF r.st.status # "ok" THEN Ret(r.st, FALSE)
           ELSE IF r.ret = rnr THEN Ret(s, TRUE)
           ELSE contains_loop(s, i + 1, rnr)

contains(s, rnr) == contains_loop(s, 0, rnr)

is_empty(s) ==
  IF ASSERT /\ stack_size(s) = 0 /\ \E i \in Slots : s.regs[i] # EMPTY
  THEN Ret(Fatal(s), FALSE)
  ELSE Ret(s, stack_size(s) = 0)

slot_is_empty(s, tos_offset) ==
  LET r == regs_at(s, tos_index(s) - tos_offset)
  IN  Ret(r.st, r.ret = EMPTY)

----------------------------------------------------------------------------
\* state transfer; an intArray is a sequence, at(i) is its element i + 1

write_state(s) ==
  <<stack_size(s)>> \o [k \in 1..nof_fpu_regs |-> s.regs[k - 1]]

\* read_state that restores the occupied slots only
RECURSIVE read_loop_occupied(_, _, _)
read_loop_occupied(s, i, fpu_stack_state) ==
  IF i >= stack_size(s) \/ s.status # "ok" THEN s
  ELSE read_loop_occupied(set_regs_at(s, i, fpu_stack_state[1 + i + 1]),
                          i + 1, fpu_stack_state)

\* the loop of read_state from index i on
RECURSIVE read_loop(_, _, _)
read_loop(s, i, fpu_stack_state) ==
  IF i >= nof_fpu_regs \/ s.status # "ok" THEN s
  ELSE read_loop(set_regs_at(s, i, fpu_stack_state[1 + i + 1]), i + 1,
                 fpu_stack_state)

\* read_state that consumes the size entry of the array it is handed
read_state_consume(s, fpu_stack_state) ==
  [st  |-> read_loop([s EXCEPT !.stack_size = fpu_stack_state[0 + 1]], 0,
                     fpu_stack_state),
   arr |-> [fpu_stack_state EXCEPT ![1] = 0]]

\* read_state is handed a pointer to the array: arr is the array it leaves
read_state(s, fpu_stack_state) ==
  [st  |-> read_loop([s EXCEPT !.stack_size = fpu_stack_state[0 + 1]], 0,
                     fpu_stack_state),
   arr |-> fpu_stack_state]

----------------------------------------------------------------------------
\* LogDecorators; a C string is the sequence of its characters

\* name and abbreviation of each decorator, in the order of the enum
DECORATOR_LIST ==
  <<<<<<"t", "i", "m", "e">>, <<"t">>>>,
     <<<<"u", "t", "c", "t", "i", "m", "e">>, <<"u", "t", "c">>>>,
     <<<<"u", "p", "t", "i", "m", "e">>, <<"u">>>>,
     <<<<"t", "i", "m", "e", "m", "i", "l", "l", "i", "s">>, <<"t", "m">>>>,
     <<<<"u", "p", "t", "i", "m", "e", "m", "i", "l", "l", "i", "s">>, <<"u", "m">>>>,
     <<<<"t", "i", "m", "e", "n", "a", "n", "o", "s">>, <<"t", "n">>>>,
     <<<<"u", "p", "t", "i", "m", "e", "n", "a", "n", "o", "s">>, <<"u", "n">>>>,
     <<<<"h", "o", "s", "t", "n", "a", "m", "e">>, <<"h", "n">>>>,
     <<<<"p", "i", "d">>, <<"p">>>>,
     <<<<"t", "i", "d">>, <<"t", "i">>>>,
     <<<<"l", "e", "v", "e", "l">>, <<"l">>>>,
     <<<<"t", "a", "g", "s">>, <<"t", "g">>>>>>

\* enum Decorator: the decorators are 0..Count-1
Count == Len(DECORATOR_LIST)

Invalid == Count + 1

name(decorator) == DECORATOR_LIST[decorator + 1][1]

abbreviation(decorator) == DECORATOR_LIST[decorator + 1][2]

\* the enumerator n##_decorator
decorator_of(n) == CHOOSE d \in 0..(Count - 1) : name(d) = n

mask(decorator) == 2 ^ decorator

\* m | mask(decorator) on the uint m
or_mask(m, decorator) ==
  IF (m \div mask(decorator)) % 2 = 1 THEN m ELSE m + mask(decorator)

DefaultDecoratorsMask ==
  LET uptime_decorator == decorator_of(<<"u", "p", "t", "i", "m", "e">>)
      level_decorator == decorator_of(<<"l", "e", "v", "e", "l">>)
      tags_decorator == decorator_of(<<"t", "a", "g", "s">>)
  IN  or_mask(or_mask(mask(uptime_decorator), level_decorator),
              tags_decorator)

\* the default constructor
LogDecorators == DefaultDecoratorsMask

UpperCase ==
  <<"A", "B", "C", "D", "E", "F", "G", "H", "I", "J", "K", "L", "M",
     "N", "O", "P", "Q", "R", "S", "T", "U", "V", "W", "X", "Y", "Z">>

LowerCase ==
  <<"a", "b", "c", "d", "e", "f", "g", "h", "i", "j", "k", "l", "m",
     "n", "o", "p", "q", "r", "s", "t", "u", "v", "w", "x", "y", "z">>

tolower(c) ==
  IF \E k \in DOMAIN UpperCase : UpperCase[k] = c
  THEN LowerCase[CHOOSE k \in DOMAIN UpperCase : UpperCase[k] = c]
  ELSE c

\* 0 when the strings are equal up to the case of their letters; 1 stands
\* for every other result
strcasecmp(s1, s2) ==
  IF Len(s1) = Len(s2) /\ \A k \in 1..Len(s1) : tolower(s1[k]) = tolower(s2[k])
  THEN 0
  ELSE 1

\* the loop of from_string from decorator i on
RECURSIVE from_string_loop(_, _)
from_string_loop(str, i) ==
  IF i >= Count THEN Invalid
  ELSE IF strcasecmp(str, name(i)) = 0 \/ strcasecmp(str, abbreviation(i)) = 0
       THEN i
       ELSE from_string_loop(str, i + 1)

from_string(str) == from_string_loop(str, 0)

\* the null pointer: an argument that is no string
nullptr == <<"nullptr">>

\* position of the first c in str at or after position from; 0 is the null
\* pointer
strchr(str, from, c) ==
  IF \E k \in from..Len(str) : str[k] = c
  THEN CHOOSE k \in from..Len(str) :
         str[k] = c /\ \A j \in from..(k - 1) : str[j] # c
  ELSE 0

\* the do-while loop of parse: token is the position in args_copy at which
\* the current token starts
RECURSIVE parse_loop(_, _, _)
parse_loop(args_copy, token, tmp_decorators) ==
  LET comma_pos == strchr(args_copy, token, ",")
      last == IF comma_pos # 0 THEN comma_pos - 1 ELSE Len(args_copy)
      d == from_string(SubSeq(args_copy, token, last))
  IN  IF d = Invalid
      THEN [result |-> FALSE, tmp_decorators |-> tmp_decorators]
      ELSE IF comma_pos # 0
           THEN parse_loop(args_copy, comma_pos + 1,
                           or_mask(tmp_decorators, d))
           ELSE [result |-> TRUE,
                 tmp_decorators |-> or_mask(tmp_decorators, d)]

\* parse that stores what it has collected whether or not it succeeded
parse_unconditional(this, decorator_args) ==
  IF decorator_args = nullptr \/ Len(decorator_args) = 0
  THEN [ret |-> TRUE, decorators |-> this]
  ELSE IF strcasecmp(decorator_args, <<"n", "o", "n", "e">>) = 0
  THEN [ret |-> TRUE, decorators |-> 0]
  ELSE LET r == parse_loop(decorator_args, 1, 0)
       IN  [ret |-> r.result, decorators |-> r.tmp_decorators]

\* parse on an object whose _decorators is this: the value returned and
\* _decorators afterwards
parse(this, decorator_args) ==
  IF decorator_args = nullptr \/ Len(decorator_args) = 0
  THEN [ret |-> TRUE, decorators |-> this]
  ELSE IF strcasecmp(decorator_args, <<"n", "o", "n", "e">>) = 0
  THEN [ret |-> TRUE, decorators |-> 0]
  ELSE LET r == parse_loop(decorator_args, 1, 0)
       IN  [ret |-> r.result,
            decorators |-> IF r.result THEN r.tmp_decorators ELSE this]

\* the tokens the caller writes between commas
TokenPool ==
  {<<"t", "i">>, <<"P", "I", "D">>, <<"u", "t", "c">>, <<>>, <<"x">>,
   <<"n", "o", "n", "e">>, <<"N", "o", "n", "e">>}

TokenLists == UNION {[1..n -> TokenPool] : n \in 0..MaxTokens}

\* the tokens separated by commas
RECURSIVE Join(_)
Join(toks) ==
  IF Len(toks) = 0 THEN <<>>
  ELSE IF Len(toks) = 1 THEN toks[1]
  ELSE toks[1] \o <<",">> \o Join(Tail(toks))

NoParse == [arg |-> nullptr, ret |-> TRUE, before |-> LogDecorators]

----------------------------------------------------------------------------
NoOp == [op |-> "new", a |-> 0, b |-> 0, ret |-> 0]

Call(opname, x, y, r) == [op |-> opname, a |-> x, b |-> y, ret |-> r]

\* _stack_size and all of _regs
Live(s) == [stack_size |-> s.stack_size, regs |-> s.regs]

\* a call starts with no trace line emitted yet
Begin == [sim EXCEPT !.lines = 0]

Init ==
  /\ ASSERT \in BOOLEAN
  /\ TraceFPUStack \in BOOLEAN
  /\ sim = FpuStackSim
  /\ saved = {}
  /\ lastOp = NoOp
  /\ pushes = 0
  /\ pops = 0
  /\ decorators = LogDecorators
  /\ lastParse = NoParse

\* what every call leaves alone unless it says otherwise
Frame == UNCHANGED <<ASSERT, TraceFPUStack, saved, decorators, lastParse>>

PopStep ==
  /\ sim.status = "ok"
  /\ sim' = pop(Begin)
  /\ lastOp' = Call("pop", 0, 0, 0)
  /\ Frame

PushStep(rnr) ==
  /\ sim.status = "ok"
  /\ sim' = push(Begin, rnr)
  /\ lastOp' = Call("push", rnr, 0, 0)
  /\ Frame

Pop == PopStep /\ UNCHANGED <<pushes, pops>>

Push == \E rnr \in Vregs : PushStep(rnr) /\ UNCHANGED <<pushes, pops>>

PopRnr ==
  \E rnr \in Vregs :
    /\ sim.status = "ok"
    /\ sim' = pop_rnr(Begin, rnr)
    /\ lastOp' = Call("pop_rnr", rnr, 0, 0)
    /\ Frame
    /\ UNCHANGED <<pushes, pops>>

\* lastOp.b tells whether the call before was the same swap
Swap ==
  \E offset \in Offsets :
    /\ sim.status = "ok"
    /\ sim' = swap(Begin, offset)
    /\ lastOp' = Call("swap", offset,
                      IF lastOp.op = "swap" /\ lastOp.a = offset
                      THEN 1 ELSE 0, 0)
    /\ Frame
    /\ UNCHANGED <<pushes, pops>>

Rename ==
  \E old_rnr \in Vregs, new_rnr \in Vregs :
    /\ sim.status = "ok"
    /\ sim' = rename(Begin, old_rnr, new_rnr)
    /\ lastOp' = Call("rename", old_rnr, new_rnr, 0)
    /\ Frame
    /\ UNCHANGED <<pushes, pops>>

SetSlot ==
  \E tos_offset \in Offsets, rnr \in Vregs :
    /\ sim.status = "ok"
    /\ sim' = set_slot(Begin, tos_offset, rnr)
    /\ lastOp' = Call("set_slot", tos_offset, rnr, 0)
    /\ Frame
    /\ UNCHANGED <<pushes, pops>>

\* lastOp.a is _stack_size as the call found it
Clear ==
  /\ sim.status = "ok"
  /\ sim' = clear(Begin)
  /\ lastOp' = Call("clear", sim.stack_size, 0, 0)
  /\ Frame
  /\ UNCHANGED <<pushes, pops>>

\* lastOp.b tells whether the call before was the push of the same rnr
OffsetFromTos ==
  \E rnr \in Vregs :
    LET r == offset_from_tos(Begin, rnr)
    IN  /\ sim.status = "ok"
        /\ sim' = r.st
        /\ lastOp' = Call("offset_from_tos", rnr,
                          IF lastOp.op = "push" /\ lastOp.a = rnr
                          THEN 1 ELSE 0, r.ret)
        /\ Frame
        /\ UNCHANGED <<pushes, pops>>

GetSlot ==
  \E tos_offset \in Offsets :
    LET r == get_slot(Begin, tos_offset)
    IN  /\ sim.status = "ok"
        /\ sim' = r.st
        /\ lastOp' = Call("get_slot", tos_offset, 0, r.ret)
        /\ Frame
        /\ UNCHANGED <<pushes, pops>>

Contains ==
  \E rnr \in Vregs :
    LET r == contains(Begin, rnr)
    IN  /\ sim.status = "ok"
        /\ sim' = r.st
        /\ lastOp' = Call("contains", rnr, 0, r.ret)
        /\ Frame
        /\ UNCHANGED <<pushes, pops>>

IsEmpty ==
  LET r == is_empty(Begin)
  IN  /\ sim.status = "ok"
      /\ sim' = r.st
      /\ lastOp' = Call("is_empty", 0, 0, r.ret)
      /\ Frame
      /\ UNCHANGED <<pushes, pops>>

SlotIsEmpty ==
  \E tos_offset \in Offsets :
    LET r == slot_is_empty(Begin, tos_offset)
    IN  /\ sim.status = "ok"
        /\ sim' = r.st
        /\ lastOp' = Call("slot_is_empty", tos_offset, 0, r.ret)
        /\ Frame
        /\ UNCHANGED <<pushes, pops>>

\* the caller captures the live state and keeps the array
WriteState ==
  /\ sim.status = "ok"
  /\ Cardinality(saved) < MaxSnaps
  /\ saved' = saved \cup {[arr |-> write_state(Begin), from |-> Live(sim)]}
  /\ sim' = Begin
  /\ lastOp' = Call("write_state", 0, 0, 0)
  /\ UNCHANGED <<ASSERT, TraceFPUStack, pushes, pops, decorators,
                     lastParse>>

\* the caller applies one of the arrays it kept; lastOp.a tells whether the
\* live state differed from the array's origin when it was applied
ReadState ==
  \E snap \in saved :
    LET r == read_state(Begin, snap.arr)
    IN  /\ sim.status = "ok"
        /\ sim' = r.st
        /\ saved' = (saved \ {snap}) \cup {[snap EXCEPT !.arr = r.arr]}
        /\ lastOp' = Call("read_state",
                          IF Live(sim) = snap.from THEN 0 ELSE 1, 0, 0)
        /\ UNCHANGED <<ASSERT, TraceFPUStack, pushes, pops, decorators,
                     lastParse>>

Next ==
  \/ Pop
  \/ PopRnr
  \/ Push
  \/ Swap
  \/ Rename
  \/ SetSlot
  \/ Clear
  \/ OffsetFromTos
  \/ GetSlot
  \/ Contains
  \/ IsEmpty
  \/ SlotIsEmpty

Spec == Init /\ [][Next]_vars

----------------------------------------------------------------------------
\* the mutators together with the capture and the restoring of snapshots

NextTransfer ==
  \/ Pop
  \/ PopRnr
  \/ Push
  \/ Swap
  \/ Rename
  \/ SetSlot
  \/ Clear
  \/ WriteState
  \/ ReadState

\* tracing is left off here: it plays no part in the transfer of state
InitTransfer == Init /\ TraceFPUStack = FALSE

SpecTransfer == InitTransfer /\ [][NextTransfer]_vars

----------------------------------------------------------------------------
\* Push/Pop sequences from a fresh stack, the calls counted

CountedPush ==
  \E rnr \in Vregs :
    /\ pushes + pops < MaxOps
    /\ PushStep(rnr)
    /\ pushes' = pushes + 1
    /\ pops' = pops

CountedPop ==
  /\ pushes + pops < MaxOps
  /\ PopStep
  /\ pops' = pops + 1
  /\ pushes' = pushes

NextPushPop ==
  \/ CountedPush
  \/ CountedPop

SpecPushPop == Init /\ [][NextPushPop]_vars

----------------------------------------------------------------------------
\* LogDecorators::parse called on the object with arguments of the caller

Parse ==
  \E toks \in TokenLists :
    LET r == parse(decorators, Join(toks))
    IN  /\ decorators' = r.decorators
        /\ lastParse' = [arg |-> Join(toks), ret |-> r.ret,
                         before |-> decorators]
        /\ UNCHANGED <<ASSERT, TraceFPUStack, sim, saved, lastOp, pushes, pops>>

ParseNull ==
  LET r == parse(decorators, nullptr)
  IN  /\ decorators' = r.decorators
      /\ lastParse' = [arg |-> nullptr, ret |-> r.ret, before |-> decorators]
      /\ UNCHANGED <<ASSERT, TraceFPUStack, sim, saved, lastOp, pushes, pops>>

NextDecorators ==
  \/ Parse
  \/ ParseNull

InitDecorators == Init /\ ASSERT = FALSE /\ TraceFPUStack = FALSE

SpecDecorators == InitDecorators /\ [][NextDecorators]_vars

----------------------------------------------------------------------------
\* the slots below _stack_size hold a register, the others are empty
StackShape(s) ==
  \A i \in Slots : (i < s.stack_size) <=> (s.regs[i] # EMPTY)

\* C1: in every Push/Pop sequence from a fresh stack in which no Push is
\* issued on a full stack and no Pop on an empty one (no call has failed),
\* after every step _stack_size is the number of pushes minus the number of
\* pops, the slots below _stack_size are non-empty and the others are empty.
C1_PushPopShape ==
  sim.status = "ok" =>
    /\ sim.stack_size = pushes - pops
    /\ StackShape(sim)

\* a pop has followed pushes and pops, and the stack is neither empty nor full
C1_Witness ==
  /\ sim.status = "ok"
  /\ lastOp.op = "pop"
  /\ pushes = 4
  /\ pops = 2
  /\ sim.stack_size = 2

\* C2: a snapshot captured in a state S1 and applied by read_state while the
\* live stack is in any state S2 leaves _stack_size and all nof_fpu_regs
\* slots as they were in S1; write_state followed at once by read_state of
\* its array changes nothing.
C2_RoundTrip ==
  sim.status = "ok" =>
    /\ \A snap \in saved :
         LET s1 == read_state(Begin, snap.arr).st
         IN  s1.status = "ok" /\ Live(s1) = snap.from
    /\ LET s1 == read_state(Begin, write_state(Begin)).st
       IN  s1.status = "ok" /\ Live(s1) = Live(sim)

\* a snapshot has been applied to a live stack that differed from it, and
\* left slots empty above the top
C2_Witness ==
  /\ sim.status = "ok"
  /\ lastOp.op = "read_state"
  /\ lastOp.a = 1
  /\ sim.stack_size = 1
  /\ \E snap \in saved : snap.from = Live(sim)

C4_SwapTwice ==
  sim.status = "ok" =>
    \A offset \in 0..(sim.stack_size - 1) :
      LET s1 == swap(Begin, offset)
          s2 == swap([s1 EXCEPT !.lines = 0], offset)
      IN  s1.status = "ok" /\ s2.status = "ok" /\ Live(s2) = Live(sim)

\* the same swap has been applied twice in a row to two slots that hold
\* different registers
C4_Witness ==
  /\ sim.status = "ok"
  /\ lastOp.op = "swap"
  /\ lastOp.a > 0
  /\ lastOp.b = 1
  /\ sim.regs[tos_index(sim)] # sim.regs[tos_index(sim) - lastOp.a]

\* C5: swap(offset) with 0 <= offset < _stack_size exchanges the top slot
\* with the slot offset positions below it: the former top is at that
\* depth, the value from that depth is on top, every other slot and
\* _stack_size are unchanged; swap(0) changes nothing.
C5_SwapExchanges ==
  sim.status = "ok" =>
    \A offset \in 0..(sim.stack_size - 1) :
      LET s1  == swap(Begin, offset)
          tos == sim.stack_size - 1
      IN  /\ s1.status = "ok"
          /\ s1.stack_size = sim.stack_size
          /\ s1.regs[tos - offset] = sim.regs[tos]
          /\ s1.regs[tos] = sim.regs[tos - offset]
          /\ \A i \in Slots \ {tos, tos - offset} : s1.regs[i] = sim.regs[i]
          /\ offset = 0 => Live(s1) = Live(sim)

\* the top of a full stack has been exchanged with the bottom slot, which
\* held another register
C5_Witness ==
  /\ sim.status = "ok"
  /\ lastOp.op = "swap"
  /\ lastOp.a = nof_fpu_regs - 1
  /\ sim.stack_size = nof_fpu_regs
  /\ sim.regs[0] # sim.regs[nof_fpu_regs - 1]

\* rnr is held by a slot below _stack_size
Holds(s, rnr) == \E i \in 0..(s.stack_size - 1) : s.regs[i] = rnr

\* C6: in every state with _stack_size < nof_fpu_regs, push(rnr) followed at
\* once by offset_from_tos(rnr) returns 0, also when rnr was already held
\* deeper in the stack.
C6_PushThenOffsetZero ==
  (sim.status = "ok" /\ sim.stack_size < nof_fpu_regs) =>
    \A rnr \in Vregs :
      LET s1 == push(Begin, rnr)
          r  == offset_from_tos([s1 EXCEPT !.lines = 0], rnr)
      IN  /\ s1.status = "ok"
          /\ r.st.status = "ok"
          /\ r.st.bailout = sim.bailout
          /\ r.ret = 0

\* offset_from_tos has followed the push of a register that a deeper slot
\* holds too
C6_Witness ==
  /\ sim.status = "ok"
  /\ lastOp.op = "offset_from_tos"
  /\ lastOp.b = 1
  /\ lastOp.ret = 0
  /\ \E i \in 0..(sim.stack_size - 2) : sim.regs[i] = lastOp.a

\* C7: when rnr is held by a slot below _stack_size, offset_from_tos(rnr)
\* returns the smallest d in [0, _stack_size) with slot _stack_size - 1 - d
\* holding rnr (the occurrence nearest the top), so get_slot of the result
\* is rnr, and with distinct registers on the stack the one in slot i has
\* offset _stack_size - 1 - i.
C7_OffsetNearestTop ==
  sim.status = "ok" =>
    \A rnr \in Vregs :
      Holds(sim, rnr) =>
        LET r == offset_from_tos(Begin, rnr)
            g == get_slot(Begin, r.ret)
        IN  /\ r.st.status = "ok"
            /\ r.st.bailout = sim.bailout
            /\ r.ret \in 0..(sim.stack_size - 1)
            /\ sim.regs[sim.stack_size - 1 - r.ret] = rnr
            /\ \A d \in 0..(r.ret - 1) : sim.regs[sim.stack_size - 1 - d] # rnr
            /\ g.st.status = "ok"
            /\ g.ret = rnr

\* offset_from_tos has been asked for a register held twice, below the top
C7_Witness ==
  /\ sim.status = "ok"
  /\ lastOp.op = "offset_from_tos"
  /\ lastOp.ret = 1
  /\ sim.stack_size = nof_fpu_regs
  /\ sim.regs[nof_fpu_regs - 2] = lastOp.a
  /\ sim.regs[0] = lastOp.a

\* what C8 says of the call rename(old_rnr, new_rnr) that took s to s1
RenamedAll(s, s1, old_rnr, new_rnr) ==
  /\ contains(s1, new_rnr).ret
  /\ ~contains(s1, old_rnr).ret
  /\ s1.stack_size = s.stack_size
  /\ \A i \in Slots :
       s1.regs[i] = IF i < s.stack_size /\ s.regs[i] = old_rnr
                    THEN new_rnr ELSE s.regs[i]

\* C8 as stated: after a rename(old_rnr, new_rnr) with old_rnr # new_rnr that
\* completes normally, contains(new_rnr) is true and contains(old_rnr) is
\* false, every occupied slot that held old_rnr holds new_rnr, every other
\* slot and _stack_size are unchanged.
C8_Original ==
  sim.status = "ok" =>
    \A old_rnr \in Vregs : \A new_rnr \in Vregs \ {old_rnr} :
      LET s1 == rename(Begin, old_rnr, new_rnr)
      IN  s1.status = "ok" => RenamedAll(sim, s1, old_rnr, new_rnr)

\* C8 amended: the same, for a rename(old_rnr, new_rnr) that completes
\* normally in a state where old_rnr is held by an occupied slot.
C8_RenameOfHeld ==
  sim.status = "ok" =>
    \A old_rnr \in Vregs : \A new_rnr \in Vregs \ {old_rnr} :
      LET s1 == rename(Begin, old_rnr, new_rnr)
      IN  (s1.status = "ok" /\ Holds(sim, old_rnr)) =>
            RenamedAll(sim, s1, old_rnr, new_rnr)

\* a rename has completed that replaced two occurrences next to a slot
\* holding a third register
C8_Witness ==
  /\ sim.status = "ok"
  /\ ASSERT
  /\ lastOp.op = "rename"
  /\ lastOp.a # lastOp.b
  /\ sim.stack_size = nof_fpu_regs
  /\ Cardinality({i \in Slots : sim.regs[i] = lastOp.b}) = 2
  /\ \E i \in Slots : sim.regs[i] \in Vregs \ {lastOp.a, lastOp.b}

\* what C9 says of a state s
OverflowIsFatal(s) ==
  /\ s.stack_size = nof_fpu_regs =>
       \A rnr \in Vregs : push([s EXCEPT !.lines = 0], rnr).status = "fatal"
  /\ s.stack_size = 0 => pop([s EXCEPT !.lines = 0]).status = "fatal"
  /\ s.stack_size >= 0
  /\ s.stack_size <= nof_fpu_regs

\* C9 as stated: a push issued at _stack_size = nof_fpu_regs and a pop issued
\* at _stack_size = 0 each end in the fatal failure, and no call completes
\* normally leaving _stack_size below 0 or above nof_fpu_regs.
C9_Original == sim.status = "ok" => OverflowIsFatal(sim)

\* C9 amended: the same in a build with assertions armed (ASSERT defined).
C9_FatalUnderAssert == (sim.status = "ok" /\ ASSERT) => OverflowIsFatal(sim)

\* a push on a full stack has ended in the fatal failure, the stack as it was
C9_Witness ==
  /\ ASSERT
  /\ sim.status = "fatal"
  /\ lastOp.op = "push"
  /\ sim.stack_size = nof_fpu_regs
  /\ StackShape(sim)

\* pop(rnr) from s has the effect of pop()
PopsTop(s, s1) ==
  /\ s1.status = "ok"
  /\ Live(s1) = Live(pop(s))
  /\ s1.stack_size = s.stack_size - 1
  /\ s1.regs[s.stack_size - 1] = EMPTY
  /\ \A i \in Slots \ {s.stack_size - 1} : s1.regs[i] = s.regs[i]

\* C10 as stated: pop(rnr) on a non-empty stack fails fatally if and only if
\* the top slot does not hold rnr; when it does, the effect is that of
\* pop(): the top slot becomes empty, _stack_size decreases by one, the
\* other slots are unchanged.
C10_Original ==
  (sim.status = "ok" /\ sim.stack_size > 0) =>
    \A rnr \in Vregs :
      LET s1 == pop_rnr(Begin, rnr)
          top == sim.regs[sim.stack_size - 1]
      IN  /\ (s1.status = "fatal") <=> (top # rnr)
          /\ top = rnr => PopsTop(Begin, s1)

\* C10 amended: in a build with assertions armed, pop(rnr) on a non-empty
\* stack fails fatally if and only if the top slot does not hold rnr; in
\* every build, when the top slot holds rnr the effect is that of pop().
C10_PopChecked ==
  (sim.status = "ok" /\ sim.stack_size > 0) =>
    \A rnr \in Vregs :
      LET s1 == pop_rnr(Begin, rnr)
          top == sim.regs[sim.stack_size - 1]
      IN  /\ ASSERT => ((s1.status = "fatal") <=> (top # rnr))
          /\ top = rnr => PopsTop(Begin, s1)

\* pop(rnr) has failed on a stack whose top holds another register
C10_Witness ==
  /\ ASSERT
  /\ sim.status = "fatal"
  /\ lastOp.op = "pop_rnr"
  /\ sim.stack_size > 1
  /\ sim.regs[sim.stack_size - 1] \in Vregs \ {lastOp.a}

\* C11: offset_from_tos(rnr) for an rnr held by no slot below _stack_size
\* (every call on an empty stack included) does not return as if rnr had
\* been found: with assertions armed it ends in the fatal failure, with
\* assertions stripped it records the bailout of the compilation and
\* returns the sentinel 0.
C11_AbsentNotFound ==
  sim.status = "ok" =>
    \A rnr \in Vregs :
      ~Holds(sim, rnr) =>
        LET r == offset_from_tos(Begin, rnr)
        IN  IF ASSERT THEN r.st.status = "fatal"
            ELSE r.st.status = "ok" /\ r.st.bailout /\ r.ret = 0

\* with assertions stripped, offset_from_tos of a register that a non-empty
\* stack does not hold has bailed out
C11_Witness ==
  /\ ~ASSERT
  /\ sim.status = "ok"
  /\ sim.bailout
  /\ lastOp.op = "offset_from_tos"
  /\ lastOp.ret = 0
  /\ sim.stack_size = 2
  /\ ~Holds(sim, lastOp.a)

\* C12: after clear() in any reachable state _stack_size is 0, all
\* nof_fpu_regs slots are empty, is_empty() returns true without its check
\* of the slots failing, and contains(rnr) is false for every rnr; clear()
\* on an empty stack changes nothing.
C12_ClearEmpties ==
  sim.status = "ok" =>
    LET s1 == clear(Begin)
        e  == is_empty([s1 EXCEPT !.lines = 0])
    IN  /\ s1.status = "ok"
        /\ s1.stack_size = 0
        /\ \A i \in Slots : s1.regs[i] = EMPTY
        /\ e.st.status = "ok"
        /\ e.ret = TRUE
        /\ \A rnr \in Vregs : contains(s1, rnr).ret = FALSE
        /\ sim.stack_size = 0 => Live(s1) = Live(sim)

\* clear() has emptied a full stack
C12_Witness ==
  /\ sim.status = "ok"
  /\ lastOp.op = "clear"
  /\ lastOp.a = nof_fpu_regs
  /\ Live(sim) = Live(FpuStackSim)

\* no register is held by two slots below _stack_size
Unique(s) ==
  \A i \in 0..(s.stack_size - 1) : \A j \in 0..(s.stack_size - 1) :
    i # j => s.regs[i] # s.regs[j]

\* C13 as stated: in every state reached by calls that complete without a
\* fatal failure, no register is held by more than one slot below
\* _stack_size.
C13_Original == sim.status = "ok" => Unique(sim)

\* C13 amended: the simulator keeps the registers distinct but does not make
\* them so.  From a state in which no register is held twice, these calls,
\* when they complete normally, lead to such a state again: pop, pop(rnr),
\* swap, clear; rename where assertions are armed; push(rnr) with rnr not
\* held; set_slot(tos_offset, rnr) with rnr held by no other slot;
\* read_state of a snapshot captured in such a state.
C13_UniqueKept ==
  (sim.status = "ok" /\ Unique(sim)) =>
    /\ pop(Begin).status = "ok" => Unique(pop(Begin))
    /\ clear(Begin).status = "ok" => Unique(clear(Begin))
    /\ \A rnr \in Vregs :
         /\ pop_rnr(Begin, rnr).status = "ok" => Unique(pop_rnr(Begin, rnr))
         /\ (~Holds(sim, rnr) /\ push(Begin, rnr).status = "ok") =>
              Unique(push(Begin, rnr))
    /\ \A offset \in Offsets :
         /\ swap(Begin, offset).status = "ok" => Unique(swap(Begin, offset))
         /\ \A rnr \in Vregs :
              LET s1 == set_slot(Begin, offset, rnr)
                  others == 0..(sim.stack_size - 1) \
                              {sim.stack_size - 1 - offset}
              IN  (s1.status = "ok" /\ \A i \in others : sim.regs[i] # rnr)
                    => Unique(s1)
    /\ ASSERT =>
         \A old_rnr \in Vregs : \A new_rnr \in Vregs :
           LET s1 == rename(Begin, old_rnr, new_rnr)
           IN  s1.status = "ok" => Unique(s1)
    /\ \A snap \in saved :
         LET s1 == read_state(Begin, snap.arr).st
         IN  (s1.status = "ok" /\ Unique(snap.from)) => Unique(s1)

\* with assertions armed, a rename has completed on a stack of two distinct
\* registers while a snapshot is held
C13_Witness ==
  /\ ASSERT
  /\ sim.status = "ok"
  /\ lastOp.op = "rename"
  /\ lastOp.a # lastOp.b
  /\ sim.stack_size = 2
  /\ Unique(sim)
  /\ saved # {}

\* what a caller can observe of the simulator after a call: the slots, the
\* size and how the call ended
SameOutcome(s1, s2) ==
  /\ s1.regs = s2.regs
  /\ s1.stack_size = s2.stack_size
  /\ s1.status = s2.status
  /\ s1.bailout = s2.bailout

\* the same for a call that returns a value
SameResult(r1, r2) ==
  /\ SameOutcome(r1.st, r2.st)
  /\ r1.ret = r2.ret

\* the current state with TraceFPUStack set and cleared
Traced == [Begin EXCEPT !.trace = TRUE]

Untraced == [Begin EXCEPT !.trace = FALSE]

\* C14: in every state, every call gives the same slots, the same
\* _stack_size, the same returned value and the same normal or fatal ending
\* with TraceFPUStack set as with TraceFPUStack cleared.
C14_TraceTransparent ==
  sim.status = "ok" =>
    /\ SameOutcome(pop(Traced), pop(Untraced))
    /\ SameOutcome(clear(Traced), clear(Untraced))
    /\ SameResult(is_empty(Traced), is_empty(Untraced))
    /\ write_state(Traced) = write_state(Untraced)
    /\ LET a == write_state(Begin)
       IN  /\ SameOutcome(read_state(Traced, a).st, read_state(Untraced, a).st)
           /\ read_state(Traced, a).arr = read_state(Untraced, a).arr
    /\ \A rnr \in Vregs :
         /\ SameOutcome(push(Traced, rnr), push(Untraced, rnr))
         /\ SameOutcome(pop_rnr(Traced, rnr), pop_rnr(Untraced, rnr))
         /\ SameResult(offset_from_tos(Traced, rnr),
                       offset_from_tos(Untraced, rnr))
         /\ SameResult(contains(Traced, rnr), contains(Untraced, rnr))
         /\ \A new_rnr \in Vregs :
              SameOutcome(rename(Traced, rnr, new_rnr),
                          rename(Untraced, rnr, new_rnr))
    /\ \A offset \in Offsets :
         /\ SameOutcome(swap(Traced, offset), swap(Untraced, offset))
         /\ SameResult(get_slot(Traced, offset), get_slot(Untraced, offset))
         /\ SameResult(slot_is_empty(Traced, offset),
                       slot_is_empty(Untraced, offset))
         /\ \A rnr \in Vregs :
              SameOutcome(set_slot(Traced, offset, rnr),
                          set_slot(Untraced, offset, rnr))

\* a traced swap has exchanged two different registers and printed its line
C14_Witness ==
  /\ TraceFPUStack
  /\ sim.status = "ok"
  /\ sim.lines = 1
  /\ lastOp.op = "swap"
  /\ lastOp.a > 0
  /\ sim.regs[sim.stack_size - 1] # sim.regs[sim.stack_size - 1 - lastOp.a]

\* C15: in every state reached by push, pop, pop(rnr), swap, rename, clear,
\* set_slot and read_state of arrays written earlier, no call having failed,
\* 0 <= _stack_size <= nof_fpu_regs, the slots below _stack_size hold a
\* register and the others are EMPTY; so the check of is_empty does not
\* fail, and below a full stack the check of push does not fail.
C15_ShapeEverywhere ==
  sim.status = "ok" =>
    /\ sim.stack_size \in 0..nof_fpu_regs
    /\ \A i \in Slots :
         /\ i < sim.stack_size => sim.regs[i] \in Vregs
         /\ i >= sim.stack_size => sim.regs[i] = EMPTY
    /\ is_empty(Begin).st.status = "ok"
    /\ sim.stack_size < nof_fpu_regs =>
         \A rnr \in Vregs : push(Begin, rnr).status = "ok"

\* with assertions armed, an array written on a shorter stack has been
\* applied over a longer one, and the slots above the restored size are EMPTY
C15_Witness ==
  /\ ASSERT
  /\ sim.status = "ok"
  /\ lastOp.op = "read_state"
  /\ lastOp.a = 1
  /\ sim.stack_size = 1
  /\ sim.regs[1] = EMPTY

\* the call that led to s1 completed and left _stack_size at n
SizeAfter(s1, n) == s1.status = "ok" => s1.stack_size = n

\* the calls that C16 and its amendment agree on: push and pop move
\* _stack_size by one and within 0..nof_fpu_regs, the other calls named
\* leave it as it was
SizeSteps ==
  /\ SizeAfter(pop(Begin), sim.stack_size - 1)
  /\ pop(Begin).status = "ok" => sim.stack_size > 0
  /\ SizeAfter(is_empty(Begin).st, sim.stack_size)
  /\ write_state(Begin)[1] = sim.stack_size
  /\ \A rnr \in Vregs :
       /\ SizeAfter(push(Begin, rnr), sim.stack_size + 1)
       /\ push(Begin, rnr).status = "ok" => sim.stack_size < nof_fpu_regs
       /\ SizeAfter(pop_rnr(Begin, rnr), sim.stack_size - 1)
       /\ pop_rnr(Begin, rnr).status = "ok" => sim.stack_size > 0
       /\ SizeAfter(contains(Begin, rnr).st, sim.stack_size)
       /\ SizeAfter(offset_from_tos(Begin, rnr).st, sim.stack_size)
       /\ \A new_rnr \in Vregs :
            SizeAfter(rename(Begin, rnr, new_rnr), sim.stack_size)
  /\ \A offset \in Offsets :
       /\ SizeAfter(swap(Begin, offset), sim.stack_size)
       /\ SizeAfter(get_slot(Begin, offset).st, sim.stack_size)
       /\ SizeAfter(slot_is_empty(Begin, offset).st, sim.stack_size)
       /\ \A rnr \in Vregs :
            SizeAfter(set_slot(Begin, offset, rnr), sim.stack_size)

\* C16 as stated: every call leaves _stack_size as it was or moves it by one
\* through inc_stack_size or dec_stack_size; no call changes it by more than
\* one.
C16_Original ==
  sim.status = "ok" =>
    /\ SizeSteps
    /\ clear(Begin).status = "ok" =>
         clear(Begin).stack_size \in
           {sim.stack_size - 1, sim.stack_size, sim.stack_size + 1}
    /\ \A snap \in saved :
         LET s1 == read_state(Begin, snap.arr).st
         IN  s1.status = "ok" =>
               s1.stack_size \in
                 {sim.stack_size - 1, sim.stack_size, sim.stack_size + 1}

\* C16 amended: push and pop move _stack_size by one through inc_stack_size
\* and dec_stack_size, the other calls named leave it as it was, and two
\* calls assign it: clear sets it to 0 and read_state sets it to the first
\* element of the array, whatever it was before.
C16_SizeWrites ==
  sim.status = "ok" =>
    /\ SizeSteps
    /\ SizeAfter(clear(Begin), 0)
    /\ \A snap \in saved :
         SizeAfter(read_state(Begin, snap.arr).st, snap.from.stack_size)

\* an array written on an empty stack has been applied to a stack that was
\* not empty
C16_Witness ==
  /\ sim.status = "ok"
  /\ lastOp.op = "read_state"
  /\ lastOp.a = 1
  /\ sim.stack_size = 0
  /\ \E snap \in saved : snap.from.stack_size = 0

\* rename(rnr, rnr) completes normally and leaves every slot and
\* _stack_size as they were
RenameSameIsNoOp ==
  \A rnr \in Vregs :
    /\ rename(Begin, rnr, rnr).status = "ok"
    /\ Live(rename(Begin, rnr, rnr)) = Live(sim)

\* rename(old_rnr, new_rnr) with old_rnr # new_rnr ends in a fatal failure
\* when new_rnr is held or old_rnr is not, and completes normally otherwise
RenameIsChecked ==
  \A old_rnr \in Vregs : \A new_rnr \in Vregs \ {old_rnr} :
    LET s1 == rename(Begin, old_rnr, new_rnr)
    IN  IF Holds(sim, old_rnr) /\ ~Holds(sim, new_rnr)
        THEN s1.status = "ok"
        ELSE s1.status = "fatal"

\* C17 as stated: rename(old_rnr, new_rnr) with old_rnr # new_rnr ends in a
\* fatal failure whenever new_rnr is held by an occupied slot and whenever
\* old_rnr is held by none, and completes normally only when old_rnr is held
\* and new_rnr is not; rename(rnr, rnr) completes normally and changes
\* nothing.
C17_Original ==
  sim.status = "ok" => (RenameIsChecked /\ RenameSameIsNoOp)

\* C17 amended: the same, the fatal failures being those of a build in which
\* assertions are armed; rename(rnr, rnr) is a no-op in either build.
C17_RenameChecked ==
  sim.status = "ok" =>
    /\ ASSERT => RenameIsChecked
    /\ RenameSameIsNoOp

\* with assertions armed, a rename to a register that is held has failed
C17_Witness ==
  /\ ASSERT
  /\ sim.status = "fatal"
  /\ lastOp.op = "rename"
  /\ lastOp.a # lastOp.b
  /\ Holds(sim, lastOp.b)
  /\ sim.stack_size = 2

\* the call that led to s1 ended in a fatal failure and left every slot and
\* _stack_size as they were
FailedUntouched(s1) ==
  /\ s1.status = "fatal"
  /\ Live(s1) = Live(sim)

\* every call whose slot index tos_index() - offset is outside _regs fails
\* untouched
OutOfRangeIsFatal ==
  /\ \A offset \in Offsets :
       ~InBounds(sim.stack_size - 1 - offset) =>
         /\ FailedUntouched(swap(Begin, offset))
         /\ FailedUntouched(get_slot(Begin, offset).st)
         /\ FailedUntouched(slot_is_empty(Begin, offset).st)
         /\ \A rnr \in Vregs : FailedUntouched(set_slot(Begin, offset, rnr))
  /\ sim.stack_size = 0 =>
       /\ FailedUntouched(pop(Begin))
       /\ \A rnr \in Vregs : FailedUntouched(pop_rnr(Begin, rnr))

\* C18 as stated: swap, get_slot, set_slot, slot_is_empty and pop whose slot
\* index falls outside 0..nof_fpu_regs-1 (an offset at or beyond
\* _stack_size, any call on an empty stack) end in a fatal failure and leave
\* every slot and _stack_size as they were.
C18_Original == sim.status = "ok" => OutOfRangeIsFatal

\* C18 amended: the same in a build in which assertions are armed.
C18_FatalUnderAssert == (sim.status = "ok" /\ ASSERT) => OutOfRangeIsFatal

\* with assertions armed, set_slot with an offset beyond the stack has failed
\* and the stack is as it was
C18_Witness ==
  /\ ASSERT
  /\ sim.status = "fatal"
  /\ lastOp.op = "set_slot"
  /\ sim.stack_size = 2
  /\ lastOp.a >= sim.stack_size
  /\ StackShape(sim)
  /\ ~Holds(sim, lastOp.b)

\* the call that led to s1 from a state with no line printed has printed n
\* lines; nothing is said of a call that ran into undefined behaviour
Printed(s1, n) == s1.status # "undefined" => s1.lines = n

\* push, pop, pop(rnr), swap, rename and clear print one line when
\* TraceFPUStack is set and none when it is not, however the call ends
TracedCallsPrintOnce ==
  /\ Printed(pop(Traced), 1)
  /\ Printed(pop(Untraced), 0)
  /\ Printed(clear(Traced), 1)
  /\ Printed(clear(Untraced), 0)
  /\ \A rnr \in Vregs :
       /\ Printed(push(Traced, rnr), 1)
       /\ Printed(push(Untraced, rnr), 0)
       /\ Printed(pop_rnr(Traced, rnr), 1)
       /\ Printed(pop_rnr(Untraced, rnr), 0)
       /\ \A new_rnr \in Vregs :
            /\ Printed(rename(Traced, rnr, new_rnr), 1)
            /\ Printed(rename(Untraced, rnr, new_rnr), 0)
  /\ \A offset \in Offsets :
       /\ Printed(swap(Traced, offset), 1)
       /\ Printed(swap(Untraced, offset), 0)

\* C19 as stated: with TraceFPUStack set, every call that changes the
\* simulated state (push, pop, swap, rename, clear, set_slot, read_state)
\* prints exactly one line, and none with TraceFPUStack cleared; the line is
\* printed also by rename(rnr, rnr) and by a call that then fails a check.
C19_Original ==
  sim.status = "ok" =>
    /\ TracedCallsPrintOnce
    /\ Printed(read_state(Traced, write_state(Begin)).st, 1)
    /\ Printed(read_state(Untraced, write_state(Begin)).st, 0)
    /\ \A offset \in Offsets : \A rnr \in Vregs :
         /\ Printed(set_slot(Traced, offset, rnr), 1)
         /\ Printed(set_slot(Untraced, offset, rnr), 0)

\* C19 amended: that holds of push, pop, pop(rnr), swap, rename and clear;
\* set_slot and read_state print no line, with TraceFPUStack set or cleared.
C19_TraceLines ==
  sim.status = "ok" =>
    /\ TracedCallsPrintOnce
    /\ Printed(read_state(Traced, write_state(Begin)).st, 0)
    /\ Printed(read_state(Untraced, write_state(Begin)).st, 0)
    /\ \A offset \in Offsets : \A rnr \in Vregs :
         /\ Printed(set_slot(Traced, offset, rnr), 0)
         /\ Printed(set_slot(Untraced, offset, rnr), 0)

\* a traced rename(rnr, rnr) of a register that is held has printed its line
C19_Witness ==
  /\ TraceFPUStack
  /\ sim.status = "ok"
  /\ lastOp.op = "rename"
  /\ lastOp.a = lastOp.b
  /\ Holds(sim, lastOp.a)
  /\ sim.lines = 1

\* the decorators selected by the bitmask m
Selected(m) == {d \in 0..(Count - 1) : (m \div (2 ^ d)) % 2 = 1}

\* the decorators that tok names, by name or abbreviation, whatever the case
\* of its letters
Named(tok) ==
  LET low == [k \in 1..Len(tok) |-> tolower(tok[k])]
  IN  {d \in 0..(Count - 1) : low = name(d) \/ low = abbreviation(d)}

\* parse of the comma-separated tokens toks is all or nothing: every token
\* names a decorator, true is returned and the decorators are those named;
\* or some token names none, false is returned and the decorators are as they
\* were
AllOrNothing(toks) ==
  LET r == parse(decorators, Join(toks))
  IN  IF \A k \in 1..Len(toks) : Named(toks[k]) # {}
      THEN /\ r.ret
           /\ r.decorators < 2 ^ Count
           /\ Selected(r.decorators) =
                UNION {Named(toks[k]) : k \in 1..Len(toks)}
      ELSE /\ ~r.ret
           /\ r.decorators = decorators

\* parse of an empty or null argument returns true and leaves the decorators
EmptyKeeps ==
  /\ parse(decorators, <<>>) = [ret |-> TRUE, decorators |-> decorators]
  /\ parse(decorators, nullptr) = [ret |-> TRUE, decorators |-> decorators]

\* C20 as stated: for a non-empty comma-separated argument other than
\* "none", parse is all or nothing; for an empty or null argument it returns
\* true and leaves the decorators; for "none" it returns true and leaves no
\* decorator.
C20_Original ==
  /\ EmptyKeeps
  /\ parse(decorators, <<"n", "o", "n", "e">>).ret
  /\ Selected(parse(decorators, <<"n", "o", "n", "e">>).decorators) = {}
  /\ \A toks \in TokenLists :
       (Join(toks) # <<>> /\ Join(toks) # <<"n", "o", "n", "e">>)
         => AllOrNothing(toks)

\* C20 amended: the same, "none" being recognised whatever the case of its
\* letters: for "none", "None", "NONE" ... parse returns true and leaves no
\* decorator, and it is all or nothing for every other non-empty argument.
C20_AllOrNothing ==
  /\ EmptyKeeps
  /\ \A toks \in TokenLists :
       Join(toks) # <<>> =>
         IF strcasecmp(Join(toks), <<"n", "o", "n", "e">>) = 0
         THEN /\ parse(decorators, Join(toks)).ret
              /\ Selected(parse(decorators, Join(toks)).decorators) = {}
         ELSE AllOrNothing(toks)

\* a parse whose second token names no decorator has returned false and
\* left the decorators that an earlier parse had set
C20_Witness ==
  /\ lastParse.arg = <<"t", "i">> \o <<",">> \o <<"x">>
  /\ ~lastParse.ret
  /\ decorators = lastParse.before
  /\ Selected(decorators) = Named(<<"P", "I", "D">>) \cup Named(<<"u", "t", "c">>)

====
